---- MODULE Spec2Model ----
(***************************************************************************)
(* Loan Utilization Tracker API (main.py, schemas.py).                     *)
(*                                                                         *)
(* State: the in-memory OTP map and the three document collections the     *)
(* handlers write (beneficiary, mediaupload, review).  One action per      *)
(* request handler; `resp` is the HTTP response of the handler that ran    *)
(* last, together with the request it answered.                            *)
(*                                                                         *)
(* JSON values: an Optional field is the empty tuple when absent/null and  *)
(* the one-element tuple <<v>> when present.  Floats are modelled by the   *)
(* integers, strings by TLA+ strings.                                      *)
(***************************************************************************)
EXTENDS Integers, Sequences, FiniteSets, TLC

VARIABLES OTP_STORE, now, beneficiary, mediaupload, review, next_id, resp,
          issued, verified

vars == <<OTP_STORE, now, beneficiary, mediaupload, review, next_id, resp,
          issued, verified>>

\* ------------------------------------------------------------------ bounds
\* datetime.now() readings taken by request_otp
MaxClock == 3
\* documents held by the store, all collections together
MaxDocs == 2
\* items of one sync payload
MaxItems == 2

\* ------------------------------------------------------------ value domains
None == <<>>
Some(v) == <<v>>

Phones == {"9000000001", "9000000002"}
Codes == {"123456", "000000"}

\* Python truthiness of an Optional[float]: None and 0.0 are falsy
truthy_float(o) == o # None /\ o[1] # 0
\* Python truthiness of an Optional[str]: None and "" are falsy
truthy_str(o) == o # None /\ o[1] # ""

\* ------------------------------------------------------------------ schemas
BeneficiaryRequired == {"phone", "name"}
MediaUploadRequired == {"beneficiary_phone", "file_name", "mime_type", "data_base64"}
ReviewRequired == {"upload_id", "reviewer_phone", "approved"}

\* pydantic validation of a request body: every required field is present
schema_valid(body, required) == \A f \in required : body[f] # None

\* ------------------------------------------------- document store gateway
StoreError == "StoreUnavailable"
\* str(ObjectId)
str_id(oid) == <<"str", oid>>

\* insert(collection, record): the record gains the store-assigned _id and
\* is appended to the collection
create_document(coll, item, oid) == Append(coll, ("_id" :> oid) @@ item)

\* query(collection, filter): the records that match every key of the filter,
\* in insertion order
get_documents(coll, filters) ==
    SelectSeq(coll, LAMBDA d : \A k \in DOMAIN filters : d[k] = Some(filters[k]))

\* d["_id"] = str(d.get("_id")) on every returned document
stringify_ids(docs) ==
    [i \in 1..Len(docs) |-> [docs[i] EXCEPT !["_id"] = str_id(docs[i]["_id"])]]

TotalDocs == Len(beneficiary) + Len(mediaupload) + Len(review)

\* --------------------------------------------------------------------- auth
\* a check that accepts any code once a record exists for the phone
otp_accepts_any_code(store, phone, code) == store[phone] # None

\* line 72: a record exists for the phone and its code equals the given one
otp_accepts(store, phone, code) ==
    ~(store[phone] = None \/ store[phone][1].code # code)

\* line 65: the demo code every request_otp issues
issue_code == "123456"

request_otp(phone) ==
    /\ now < MaxClock
    /\ LET code == issue_code IN
         /\ OTP_STORE' = [OTP_STORE EXCEPT
                            ![phone] = Some([code |-> code, created_at |-> now])]
         /\ resp' = [op |-> "request_otp", phone |-> phone, status |-> 200,
                     sent |-> TRUE, code |-> code]
         \* the last two codes issued to the phone, newest last
         /\ issued' = [issued EXCEPT ![phone] =
                          IF Len(@) < 2 THEN Append(@, code)
                                        ELSE <<@[2], code>>]
    /\ now' = now + 1
    /\ verified' = [verified EXCEPT ![phone] = {}]
    /\ UNCHANGED <<beneficiary, mediaupload, review, next_id>>

\* a verify_otp that consumes the record on success
verify_otp_consuming(phone, code) ==
    /\ IF ~otp_accepts(OTP_STORE, phone, code)
         THEN /\ resp' = [op |-> "verify_otp", phone |-> phone, code |-> code,
                          status |-> 401, detail |-> "Invalid OTP"]
              /\ UNCHANGED <<verified, OTP_STORE>>
         ELSE /\ resp' = [op |-> "verify_otp", phone |-> phone, code |-> code,
                          status |-> 200, token |-> <<"demo-token-", phone>>]
              /\ verified' = [verified EXCEPT ![phone] = @ \cup {code}]
              /\ OTP_STORE' = [OTP_STORE EXCEPT ![phone] = None]
    /\ UNCHANGED <<now, beneficiary, mediaupload, review, next_id, issued>>

verify_otp(phone, code) ==
    /\ IF ~otp_accepts(OTP_STORE, phone, code)
         THEN /\ resp' = [op |-> "verify_otp", phone |-> phone, code |-> code,
                          status |-> 401, detail |-> "Invalid OTP"]
              /\ UNCHANGED verified
         ELSE /\ resp' = [op |-> "verify_otp", phone |-> phone, code |-> code,
                          status |-> 200, token |-> <<"demo-token-", phone>>]
              \* the codes accepted for the phone since its last request_otp
              /\ verified' = [verified EXCEPT ![phone] = @ \cup {code}]
    /\ UNCHANGED <<OTP_STORE, now, beneficiary, mediaupload, review, next_id, issued>>

RequestOtp == \E p \in Phones : request_otp(p)
VerifyOtp == \E p \in Phones, c \in Codes : verify_otp(p, c)

\* ------------------------------------------------------------ beneficiaries
BeneficiaryBody(phone, state, district) ==
    [phone |-> phone, name |-> Some("n"), state |-> state, district |-> district,
     address |-> None, scheme |-> None, bank |-> None, loan_id |-> None,
     loan_amount |-> None]

BeneficiaryBodies ==
    {BeneficiaryBody(p, sd[1], sd[2]) :
        p \in {None, Some(""), Some("A")},
        sd \in {<<None, None>>, <<Some("X"), Some("D")>>, <<Some("Y"), Some("D")>>}}

\* `ok` is whether the store call of this request succeeds
create_beneficiary(item, ok) ==
    /\ (schema_valid(item, BeneficiaryRequired) /\ ok) => TotalDocs < MaxDocs
    /\ IF ~schema_valid(item, BeneficiaryRequired)
         THEN /\ resp' = [op |-> "create_beneficiary", item |-> item, status |-> 422]
              /\ UNCHANGED <<beneficiary, next_id>>
         ELSE IF ~ok
         THEN /\ resp' = [op |-> "create_beneficiary", item |-> item, status |-> 500]
              /\ UNCHANGED <<beneficiary, next_id>>
         ELSE /\ beneficiary' = create_document(beneficiary, item, next_id)
              /\ next_id' = next_id + 1
              /\ resp' = [op |-> "create_beneficiary", item |-> item, status |-> 200,
                          id |-> str_id(next_id)]
    /\ UNCHANGED <<OTP_STORE, now, mediaupload, review, issued, verified>>

\* a filter builder that forgets the phone parameter
beneficiary_filters_without_phone(state, district, phone) ==
    LET params == [state |-> state, district |-> district]
        keys == {k \in {"state", "district"} : truthy_str(params[k])}
    IN  [k \in keys |-> params[k][1]]

\* lines 84-90: a query parameter enters the filter when it is truthy
beneficiary_filters(state, district, phone) ==
    LET params == [state |-> state, district |-> district, phone |-> phone]
        keys == {k \in {"state", "district", "phone"} : truthy_str(params[k])}
    IN  [k \in keys |-> params[k][1]]

list_beneficiaries(state, district, phone, ok) ==
    /\ resp' = IF ~ok
                 THEN [op |-> "list_beneficiaries", state |-> state,
                       district |-> district, phone |-> phone, status |-> 500]
                 ELSE [op |-> "list_beneficiaries", state |-> state,
                       district |-> district, phone |-> phone, status |-> 200,
                       docs |-> stringify_ids(get_documents(beneficiary,
                                   beneficiary_filters(state, district, phone))),
                       \* the create_beneficiary call this list directly follows
                       follows |-> IF resp.op = "create_beneficiary" /\ resp.status = 200
                                     THEN Some(resp) ELSE None]
    /\ UNCHANGED <<OTP_STORE, now, beneficiary, mediaupload, review, next_id,
                   issued, verified>>

StateParams == {None, Some(""), Some("X")}
DistrictParams == {None, Some("D")}
PhoneParams == {None, Some(""), Some("A")}

CreateBeneficiary ==
    \E b \in BeneficiaryBodies, ok \in BOOLEAN : create_beneficiary(b, ok)
ListBeneficiaries ==
    \E s \in StateParams, d \in DistrictParams, p \in PhoneParams, ok \in BOOLEAN :
        list_beneficiaries(s, d, p, ok)

\* ------------------------------------------------------------------ reviews
ReviewBody(upload_id, reviewer_phone) ==
    [upload_id |-> upload_id, reviewer_phone |-> reviewer_phone,
     approved |-> Some(TRUE), comment |-> None]

ReviewBodies ==
    {ReviewBody(None, Some("R1")), ReviewBody(Some("u1"), Some("R1")),
     ReviewBody(Some("u1"), Some("R2")), ReviewBody(Some("u2"), Some("R2"))}

\* a create_review that inserts into the mediaupload collection
create_review_into_uploads(item, ok) ==
    /\ (schema_valid(item, ReviewRequired) /\ ok) => TotalDocs < MaxDocs
    /\ IF ~schema_valid(item, ReviewRequired)
         THEN /\ resp' = [op |-> "create_review", item |-> item, status |-> 422]
              /\ UNCHANGED <<mediaupload, next_id>>
         ELSE IF ~ok
         THEN /\ resp' = [op |-> "create_review", item |-> item, status |-> 500]
              /\ UNCHANGED <<mediaupload, next_id>>
         ELSE /\ mediaupload' = create_document(mediaupload, item, next_id)
              /\ next_id' = next_id + 1
              /\ resp' = [op |-> "create_review", item |-> item, status |-> 200,
                          id |-> str_id(next_id)]
    /\ UNCHANGED <<OTP_STORE, now, beneficiary, review, issued, verified>>

create_review(item, ok) ==
    /\ (schema_valid(item, ReviewRequired) /\ ok) => TotalDocs < MaxDocs
    /\ IF ~schema_valid(item, ReviewRequired)
         THEN /\ resp' = [op |-> "create_review", item |-> item, status |-> 422]
              /\ UNCHANGED <<review, next_id>>
         ELSE IF ~ok
         THEN /\ resp' = [op |-> "create_review", item |-> item, status |-> 500]
              /\ UNCHANGED <<review, next_id>>
         ELSE /\ review' = create_document(review, item, next_id)
              /\ next_id' = next_id + 1
              /\ resp' = [op |-> "create_review", item |-> item, status |-> 200,
                          id |-> str_id(next_id)]
    /\ UNCHANGED <<OTP_STORE, now, beneficiary, mediaupload, issued, verified>>

\* a filter builder that forgets the reviewer_phone parameter
review_filters_without_reviewer(upload_id, reviewer_phone) ==
    IF truthy_str(upload_id) THEN [k \in {"upload_id"} |-> upload_id[1]]
                             ELSE [k \in {} |-> ""]

\* lines 125-132
review_filters(upload_id, reviewer_phone) ==
    LET params == [upload_id |-> upload_id, reviewer_phone |-> reviewer_phone]
        keys == {k \in {"upload_id", "reviewer_phone"} : truthy_str(params[k])}
    IN  [k \in keys |-> params[k][1]]

list_reviews(upload_id, reviewer_phone, ok) ==
    /\ resp' = IF ~ok
                 THEN [op |-> "list_reviews", upload_id |-> upload_id,
                       reviewer_phone |-> reviewer_phone, status |-> 500]
                 ELSE [op |-> "list_reviews", upload_id |-> upload_id,
                       reviewer_phone |-> reviewer_phone, status |-> 200,
                       docs |-> stringify_ids(get_documents(review,
                                   review_filters(upload_id, reviewer_phone)))]
    /\ UNCHANGED <<OTP_STORE, now, beneficiary, mediaupload, review, next_id,
                   issued, verified>>

UploadIdParams == {None, Some(""), Some("u1")}
ReviewerParams == {None, Some("R1")}

CreateReview == \E b \in ReviewBodies, ok \in BOOLEAN : create_review(b, ok)
ListReviews ==
    \E u \in UploadIdParams, r \in ReviewerParams, ok \in BOOLEAN :
        list_reviews(u, r, ok)

\* ------------------------------------------------------------------ uploads
MediaUploadBody(file_name, latitude, longitude) ==
    [beneficiary_phone |-> Some("A"), loan_id |-> None, file_name |-> file_name,
     mime_type |-> Some("image/jpeg"), data_base64 |-> Some("AAAA"),
     latitude |-> latitude, longitude |-> longitude, accuracy |-> None,
     captured_at |-> None, notes |-> None]

FileNames == {None, Some("a.jpg"), Some("b.jpg")}
Coordinates == {None, Some(0), Some(1)}

MediaUploadBodies ==
    {MediaUploadBody(f, la, lo) : f \in FileNames, la \in Coordinates,
                                  lo \in Coordinates}

\* a location check that looks at the latitude only
location_missing_latitude_only(item) == ~truthy_float(item.latitude)

\* a location check that rejects absent coordinates only
location_missing_absent_only(item) == item.latitude = None \/ item.longitude = None

\* line 100: not item.latitude or not item.longitude
location_missing(item) ==
    ~truthy_float(item.latitude) \/ ~truthy_float(item.longitude)

create_upload(item, ok) ==
    /\ (/\ schema_valid(item, MediaUploadRequired)
        /\ ~location_missing(item)
        /\ ok) => TotalDocs < MaxDocs
    /\ IF ~schema_valid(item, MediaUploadRequired)
         THEN /\ resp' = [op |-> "create_upload", item |-> item, status |-> 422]
              /\ UNCHANGED <<mediaupload, next_id>>
         ELSE IF location_missing(item)
         THEN /\ resp' = [op |-> "create_upload", item |-> item, status |-> 400,
                          detail |-> "Location is required"]
              /\ UNCHANGED <<mediaupload, next_id>>
         ELSE IF ~ok
         THEN /\ resp' = [op |-> "create_upload", item |-> item, status |-> 500]
              /\ UNCHANGED <<mediaupload, next_id>>
         ELSE /\ mediaupload' = create_document(mediaupload, item, next_id)
              /\ next_id' = next_id + 1
              /\ resp' = [op |-> "create_upload", item |-> item, status |-> 200,
                          id |-> str_id(next_id)]
    /\ UNCHANGED <<OTP_STORE, now, beneficiary, review, issued, verified>>

\* a loop that stops at the first insert that raises
RECURSIVE sync_loop_aborting(_, _, _, _, _)
sync_loop_aborting(items, raises, coll, oid, results) ==
    IF items = <<>>
      THEN [coll |-> coll, oid |-> oid, results |-> results]
      ELSE LET it == Head(items) IN
           IF Head(raises)
             THEN [coll |-> coll, oid |-> oid,
                   results |-> Append(results, [file_name |-> it.file_name[1],
                                                status |-> "error",
                                                error |-> StoreError])]
             ELSE sync_loop_aborting(Tail(items), Tail(raises),
                            create_document(coll, it, oid), oid + 1,
                            Append(results, [file_name |-> it.file_name[1],
                                             status |-> "ok",
                                             id |-> str_id(oid)]))

\* lines 108-114: one insert attempt per item, in order; raises[i] is whether
\* the store call for item i raises.  The result is the collection, the id
\* generator and the results list when the loop ends.
RECURSIVE sync_loop(_, _, _, _, _)
sync_loop(items, raises, coll, oid, results) ==
    IF items = <<>>
      THEN [coll |-> coll, oid |-> oid, results |-> results]
      ELSE LET it == Head(items) IN
           IF Head(raises)
             THEN sync_loop(Tail(items), Tail(raises), coll, oid,
                            Append(results, [file_name |-> it.file_name[1],
                                             status |-> "error",
                                             error |-> StoreError]))
             ELSE sync_loop(Tail(items), Tail(raises),
                            create_document(coll, it, oid), oid + 1,
                            Append(results, [file_name |-> it.file_name[1],
                                             status |-> "ok",
                                             id |-> str_id(oid)]))

Inserts(raises) == Cardinality({i \in 1..Len(raises) : ~raises[i]})

sync_offline(items, raises) ==
    /\ IF \E i \in 1..Len(items) : ~schema_valid(items[i], MediaUploadRequired)
         THEN \* SyncPayload validation rejects the whole request body
              /\ resp' = [op |-> "sync", items |-> items, raises |-> raises,
                          status |-> 422]
              /\ UNCHANGED <<mediaupload, next_id>>
         ELSE /\ TotalDocs + Inserts(raises) <= MaxDocs
              /\ LET r == sync_loop(items, raises, mediaupload, next_id, <<>>) IN
                   /\ mediaupload' = r.coll
                   /\ next_id' = r.oid
                   /\ resp' = [op |-> "sync", items |-> items, raises |-> raises,
                               status |-> 200, results |-> r.results]
    /\ UNCHANGED <<OTP_STORE, now, beneficiary, review, issued, verified>>

\* the offline uploads the sync payloads are drawn from
SyncBodies ==
    {MediaUploadBody(None, Some(1), Some(1)),
     MediaUploadBody(Some("a.jpg"), None, Some(1)),
     MediaUploadBody(Some("b.jpg"), Some(1), Some(1))}

SeqsUpTo(S, n) == UNION {[1..k -> S] : k \in 0..n}

CreateUpload == \E b \in MediaUploadBodies, ok \in BOOLEAN : create_upload(b, ok)
Sync ==
    \E items \in SeqsUpTo(SyncBodies, MaxItems) :
        \E raises \in [1..Len(items) -> BOOLEAN] : sync_offline(items, raises)

\* -------------------------------------------------------------- ai validate
ai_validate(upload_id) ==
    /\ resp' = [op |-> "ai_validate", upload_id |-> upload_id, status |-> 200,
                valid |-> TRUE, score |-> <<87, 100>>, flags |-> <<>>]
    /\ UNCHANGED <<OTP_STORE, now, beneficiary, mediaupload, review, next_id,
                   issued, verified>>

AiValidate == ai_validate("u1")

\* -------------------------------------------------------------------- init
Init ==
    /\ OTP_STORE = [p \in Phones |-> None]
    /\ now = 0
    /\ beneficiary = <<>>
    /\ mediaupload = <<>>
    /\ review = <<>>
    /\ next_id = 1
    /\ resp = [op |-> "start", status |-> 0]
    /\ issued = [p \in Phones |-> <<>>]
    /\ verified = [p \in Phones |-> {}]

\* ------------------------------------------------------ the whole service
\* Every endpoint, with the request bodies drawn from a sample of each
\* domain above.
PostBeneficiaries ==
    \E b \in {BeneficiaryBody(Some("A"), Some("X"), None),
              BeneficiaryBody(None, None, None)}, ok \in BOOLEAN :
        create_beneficiary(b, ok)
GetBeneficiaries ==
    \E p \in {None, Some("A")}, ok \in BOOLEAN : list_beneficiaries(None, None, p, ok)
PostUploads ==
    \E b \in {MediaUploadBody(Some("a.jpg"), Some(1), Some(1)),
              MediaUploadBody(Some("a.jpg"), None, Some(1))}, ok \in BOOLEAN :
        create_upload(b, ok)
PostSync ==
    \E items \in SeqsUpTo({MediaUploadBody(Some("b.jpg"), Some(1), Some(1)),
                           MediaUploadBody(None, Some(1), Some(1))}, MaxItems) :
        \E raises \in [1..Len(items) -> BOOLEAN] : sync_offline(items, raises)
PostReviews ==
    \E b \in {ReviewBody(Some("u1"), Some("R1")), ReviewBody(None, Some("R1"))},
       ok \in BOOLEAN : create_review(b, ok)
GetReviews ==
    \E u \in {None, Some("u1")}, ok \in BOOLEAN : list_reviews(u, None, ok)

PostRequestOtp == request_otp("9000000001")
PostVerifyOtp == \E c \in Codes : verify_otp("9000000001", c)

Next ==
    \/ PostRequestOtp
    \/ PostVerifyOtp
    \/ PostBeneficiaries
    \/ GetBeneficiaries
    \/ PostUploads
    \/ PostSync
    \/ PostReviews
    \/ GetReviews
    \/ AiValidate
Spec == Init /\ [][Next]_vars

NextAuth == RequestOtp \/ VerifyOtp
SpecAuth == Init /\ [][NextAuth]_vars

NextLists == CreateBeneficiary \/ ListBeneficiaries \/ CreateReview \/ ListReviews
SpecLists == Init /\ [][NextLists]_vars

NextUploads == CreateUpload \/ Sync
SpecUploads == Init /\ [][NextUploads]_vars

\* ================================================================== claims
Last(q) == q[Len(q)]
IsPrefix(p, q) == Len(p) <= Len(q) /\ SubSeq(q, 1, Len(p)) = p
\* every submitted field of the body is in the document, with the same value
SameFields(doc, body) == \A f \in DOMAIN body : doc[f] = body[f]
Creates == {"create_beneficiary", "create_upload", "create_review"}
ReadOnly == {"list_beneficiaries", "list_reviews", "request_otp", "verify_otp",
             "ai_validate"}

\* ---- C1
\* C1, as stated: verify-otp(phone, code) succeeds iff code is the code most
\* recently issued to the phone, fails with 401 when none was ever issued, and
\* after a repeated request-otp the previously issued code is rejected.
C1_AsStated ==
    resp.op = "verify_otp" =>
        LET h == issued[resp.phone] IN
        /\ resp.status \in {200, 401}
        /\ resp.status = 200 <=> (h # <<>> /\ resp.code = Last(h))
        /\ h = <<>> => resp.status = 401
        /\ (Len(h) = 2 /\ resp.code = h[1]) => resp.status = 401

\* C1, amended: verify-otp(phone, code) succeeds iff code is the code most
\* recently issued to the phone and fails with 401 when none was ever issued;
\* every request-otp issues the same code "123456", so after a repeated
\* request-otp the previously issued code is still accepted.
C1_VerifyMatchesLastIssued ==
    /\ resp.op = "request_otp" => resp.code = "123456"
    /\ resp.op = "verify_otp" =>
        LET h == issued[resp.phone] IN
        /\ resp.status \in {200, 401}
        /\ resp.status = 200 <=> (h # <<>> /\ resp.code = Last(h))
        /\ h = <<>> => resp.status = 401
        /\ (Len(h) = 2 /\ resp.code = h[1]) => resp.status = 200

\* a verify-otp with the code issued before the latest request-otp succeeded
C1_Witness ==
    /\ resp.op = "verify_otp"
    /\ Len(issued[resp.phone]) = 2
    /\ resp.code = issued[resp.phone][1]
    /\ resp.status = 200

C3_PersistedUploadsHaveLocation ==
    \A i \in 1..Len(mediaupload) :
        mediaupload[i].latitude # None /\ mediaupload[i].longitude # None

\* ---- C4
\* C4: a sync of N items of which exactly K fail validation (a required field
\* missing, or no location), no store call raising, answers N results in the
\* order of the items, K of them "error" and N-K "ok", and persists exactly
\* the N-K valid items.
C4_SyncValidatesPerItem ==
    [][(resp'.op = "sync" /\ \A i \in 1..Len(resp'.items) : ~resp'.raises[i])
       => LET items == resp'.items
              N == Len(items)
              bad == {i \in 1..N : \/ ~schema_valid(items[i], MediaUploadRequired)
                                   \/ location_missing(items[i])}
          IN  /\ resp'.status = 200
              /\ Len(resp'.results) = N
              /\ \A i \in 1..N :
                    resp'.results[i].status = IF i \in bad THEN "error" ELSE "ok"
              /\ Len(mediaupload') = Len(mediaupload) + (N - Cardinality(bad))]_vars

\* ---- C5
\* the number of inserts that succeeded among the first i items
Rank(raises, i) == Cardinality({j \in 1..i : ~raises[j]})

\* C5: in a sync that reaches the handler, an insert that raises does not abort
\* the batch: there is one result per item, in order, with the item's
\* file_name; the result is "error" with the message where the insert raised
\* and "ok" with the new id where it did not; and the collection grows by the
\* inserted items, in submission order.
C5_SyncNeverAborts ==
    [][(resp'.op = "sync" /\ resp'.status = 200)
       => LET items == resp'.items
              raises == resp'.raises
              res == resp'.results
              N == Len(items)
              base == Len(mediaupload)
          IN  /\ Len(res) = N
              /\ IsPrefix(mediaupload, mediaupload')
              /\ Len(mediaupload') = base + Rank(raises, N)
              /\ \A i \in 1..N :
                    /\ res[i].file_name = items[i].file_name[1]
                    /\ raises[i] =>
                          /\ res[i].status = "error"
                          /\ res[i].error = StoreError
                    /\ ~raises[i] =>
                          LET doc == mediaupload'[base + Rank(raises, i)] IN
                          /\ res[i].status = "ok"
                          /\ res[i].id = str_id(doc["_id"])
                          /\ SameFields(doc, items[i])]_vars

\* the first insert of a batch raised and a later one was stored
C5_Witness ==
    /\ resp.op = "sync"
    /\ resp.status = 200
    /\ Len(resp.items) >= 2
    /\ resp.raises[1]
    /\ resp.results[1].status = "error"
    /\ resp.results[Len(resp.items)].status = "ok"
    /\ Last(mediaupload).file_name = Last(resp.items).file_name

Matching(coll, params, Supplied(_)) ==
    SelectSeq(coll, LAMBDA d :
        \A k \in DOMAIN params : Supplied(params[k]) => d[k] = params[k])
IsGiven(o) == o # None
IsGivenNonEmpty(o) == o # None /\ o # Some("")
BeneficiaryParams(r) == [state |-> r.state, district |-> r.district, phone |-> r.phone]
ReviewParams(r) == [upload_id |-> r.upload_id, reviewer_phone |-> r.reviewer_phone]
SameRecords(docs, coll) ==
    /\ Len(docs) = Len(coll)
    /\ \A i \in 1..Len(docs) :
          /\ SameFields(docs[i], [f \in DOMAIN coll[i] \ {"_id"} |-> coll[i][f]])
          /\ docs[i]["_id"] = str_id(coll[i]["_id"])

\* C7, as stated: the list endpoints return exactly the records whose fields
\* equal every supplied parameter, the empty string included; with no
\* parameter they return the whole collection.
C7_AsStated ==
    /\ (resp.op = "list_beneficiaries" /\ resp.status = 200) =>
          SameRecords(resp.docs, Matching(beneficiary, BeneficiaryParams(resp), IsGiven))
    /\ (resp.op = "list_reviews" /\ resp.status = 200) =>
          SameRecords(resp.docs, Matching(review, ReviewParams(resp), IsGiven))

\* C7, amended: the list endpoints return exactly the records whose fields
\* equal every supplied non-empty parameter; a parameter given as the empty
\* string is treated as not supplied; with no parameter they return the whole
\* collection.
C7_ListFiltersExactMatch ==
    /\ (resp.op = "list_beneficiaries" /\ resp.status = 200) =>
          /\ SameRecords(resp.docs,
                 Matching(beneficiary, BeneficiaryParams(resp), IsGivenNonEmpty))
          /\ (resp.state = None /\ resp.district = None /\ resp.phone = None)
                => Len(resp.docs) = Len(beneficiary)
    /\ (resp.op = "list_reviews" /\ resp.status = 200) =>
          /\ SameRecords(resp.docs,
                 Matching(review, ReviewParams(resp), IsGivenNonEmpty))
          /\ (resp.upload_id = None /\ resp.reviewer_phone = None)
                => Len(resp.docs) = Len(review)

\* a state filter kept one record and dropped one whose state is absent, the
\* phone parameter being the empty string
C7_Witness ==
    /\ resp.op = "list_beneficiaries"
    /\ resp.status = 200
    /\ resp.state = Some("X")
    /\ resp.phone = Some("")
    /\ Len(resp.docs) = 1
    /\ Len(beneficiary) = 2
    /\ \E i \in 1..2 : beneficiary[i].state = None
    /\ resp.docs[1].phone # Some("")

\* ---- C8
\* the number of records the answered request inserted
Inserted(r) ==
    IF r.op \in Creates /\ r.status = 200 THEN 1
    ELSE IF r.op = "sync" /\ r.status = 200
           THEN Cardinality({i \in 1..Len(r.results) : r.results[i].status = "ok"})
    ELSE 0

\* C8: the collections are append-only: every step keeps each collection as a
\* prefix of its next value; a successful create, and each successful item of
\* a sync, adds one record to its own collection and none to the others; the
\* list, auth and ai-validate endpoints leave the three collections unchanged.
C8_AppendOnly ==
    [][/\ IsPrefix(beneficiary, beneficiary')
       /\ IsPrefix(mediaupload, mediaupload')
       /\ IsPrefix(review, review')
       /\ Len(beneficiary') - Len(beneficiary) =
             IF resp'.op = "create_beneficiary" THEN Inserted(resp') ELSE 0
       /\ Len(mediaupload') - Len(mediaupload) =
             IF resp'.op \in {"create_upload", "sync"} THEN Inserted(resp') ELSE 0
       /\ Len(review') - Len(review) =
             IF resp'.op = "create_review" THEN Inserted(resp') ELSE 0
       /\ resp'.op \in ReadOnly =>
             UNCHANGED <<beneficiary, mediaupload, review>>]_vars

\* a list ran over a store that holds records in two collections
C8_Witness ==
    /\ resp.op = "list_beneficiaries"
    /\ resp.status = 200
    /\ Len(beneficiary) = 1
    /\ Len(mediaupload) = 1
    /\ Len(resp.docs) = 1

C10_OtpFrame ==
    [][/\ resp'.op = "verify_otp" =>
             /\ OTP_STORE' = OTP_STORE
             /\ resp'.code \in verified[resp'.phone] => resp'.status = 200
       /\ resp'.op = "request_otp" =>
             /\ \A q \in Phones \ {resp'.phone} : OTP_STORE'[q] = OTP_STORE[q]
             /\ OTP_STORE'[resp'.phone] # None
       /\ \A p \in Phones : \A c \in verified'[p] : otp_accepts(OTP_STORE', p, c)]_vars

\* a verification succeeded for a phone after a code was issued to another one
C10_Witness ==
    /\ resp.op = "verify_otp"
    /\ resp.status = 200
    /\ \E q \in Phones \ {resp.phone} :
          /\ OTP_STORE[q] # None
          /\ OTP_STORE[q][1].created_at > OTP_STORE[resp.phone][1].created_at
          /\ verified[q] # {}

====
